---- MODULE Spec2Model ----
(***************************************************************************)
(* Big5 converter: table construction (buildMapping, REVERSE_MAPPING), the *)
(* forward transcoder of the App component (codeLines, textOutput) and the *)
(* ReverseLookup component.                                                *)
(*                                                                         *)
(* JavaScript strings are modelled as sequences of UTF-16 code units       *)
(* (naturals below 65536); a Map is modelled as the sequence of its        *)
(* <<key, value>> entries in iteration (insertion) order.                  *)
(***************************************************************************)
EXTENDS Integers, Sequences, FiniteSets, TLC

VARIABLES
    BIG5_DATA,        \* the base64 text exported by ./big5-data
    BIG5_COUNT,       \* the record count exported by ./big5-data
    pc,               \* "atob" | "build" | "reverse" | "mounted" | "fatal"
    raw,              \* buildMapping: the decoded binary string
    i,                \* buildMapping: the loop index
    map,              \* buildMapping: the map under construction
    MAPPING,          \* ForwardMap
    REVERSE_MAPPING,  \* ReverseMap
    j,                \* number of MAPPING entries the for-of loop has consumed
    input,            \* App state
    copied,           \* App state
    timers,           \* number of pending setTimeout callbacks of handleCopy
    showAnnotation,   \* App state
    blockMode,        \* App state
    codeLines,        \* App useMemo, deps [input]
    textOutput,       \* App useMemo, deps [codeLines, showAnnotation]
    output,           \* useMemo of the single-line App variant, deps [input]
    cells             \* ReverseLookup state

vars == <<BIG5_DATA, BIG5_COUNT, pc, raw, i, map, MAPPING, REVERSE_MAPPING, j,
          input, copied, timers, showAnnotation, blockMode, codeLines,
          textOutput, output, cells>>

loadVars == <<BIG5_DATA, BIG5_COUNT, raw, i, map, MAPPING, REVERSE_MAPPING, j>>
appVars == <<input, copied, timers, showAnnotation, blockMode, codeLines,
             textOutput, output>>

-----------------------------------------------------------------------------
(* Bounds of the model.                                                    *)

\* number of records of the enumerated table blobs
MaxRecords == 3
\* number of UTF-16 code units of the input text
MaxInputLen == 3
\* number of setTimeout callbacks of handleCopy pending at once
MaxTimers == 1

-----------------------------------------------------------------------------
(* JavaScript values.                                                      *)

\* NaN, as returned by charCodeAt past the end of the string
NaN == 0 - 1
\* undefined, as returned by Map.prototype.get on a miss
undefined == <<0 - 1>>
\* the exceptional outcome of atob (InvalidCharacterError)
InvalidCharacterError == <<0 - 2>>

\* ToInt32 of a charCodeAt result: NaN converts to 0.  atob yields code units
\* below 256, so no operand of << or | below reaches bit 24, let alone the
\* sign bit of the 32-bit result.
ToInt32(x) == IF x = NaN THEN 0 ELSE x

\* x << n
Shl(x, n) == ToInt32(x) * (2 ^ n)

RECURSIVE BitOrNat(_, _)
BitOrNat(a, b) ==
    IF a = 0 THEN b
    ELSE IF b = 0 THEN a
    ELSE (IF (a % 2 = 1) \/ (b % 2 = 1) THEN 1 ELSE 0)
         + 2 * BitOrNat(a \div 2, b \div 2)

\* x | y
BitOr(x, y) == BitOrNat(ToInt32(x), ToInt32(y))

\* String.prototype.charCodeAt with a 0-based index
charCodeAt(s, o) == IF (o + 1) \in DOMAIN s THEN s[o + 1] ELSE NaN

\* String.fromCodePoint for one code point; RangeError above 0x10FFFF
fromCodePointThrows(cp) == cp > 1114111

fromCodePoint(cp) ==
    IF cp < 65536 THEN <<cp>>
    ELSE <<55296 + ((cp - 65536) \div 1024), 56320 + ((cp - 65536) % 1024)>>

\* one lower-case hexadecimal digit, as Number.prototype.toString(16) writes it
HexDigitLower(d) == IF d < 10 THEN 48 + d ELSE 97 + (d - 10)

RECURSIVE toString16(_)
toString16(n) ==
    IF n < 16 THEN <<HexDigitLower(n)>>
    ELSE Append(toString16(n \div 16), HexDigitLower(n % 16))

\* String.prototype.toUpperCase on the ASCII letters the model's texts hold
toUpperCase(s) ==
    [p \in DOMAIN s |-> IF s[p] >= 97 /\ s[p] <= 122 THEN s[p] - 32 ELSE s[p]]

RECURSIVE padStart(_, _, _)
padStart(s, n, c) == IF Len(s) >= n THEN s ELSE padStart(<<c>> \o s, n, c)

-----------------------------------------------------------------------------
(* Map (insertion ordered).                                                *)

MapKeys(m) == {m[p][1] : p \in DOMAIN m}
MapValues(m) == {m[p][2] : p \in DOMAIN m}
MapHas(m, k) == \E p \in DOMAIN m : m[p][1] = k

MapGet(m, k) ==
    IF MapHas(m, k) THEN m[CHOOSE p \in DOMAIN m : m[p][1] = k][2]
    ELSE undefined

\* Map.prototype.set: an existing key keeps its position and takes the value
MapSet(m, k, v) ==
    IF MapHas(m, k)
    THEN [p \in DOMAIN m |-> IF m[p][1] = k THEN <<k, v>> ELSE m[p]]
    ELSE Append(m, <<k, v>>)

-----------------------------------------------------------------------------
(* atob: the forgiving-base64 decode of the HTML standard.                 *)

IsAsciiWhitespace(c) == c \in {9, 10, 12, 13, 32}

Base64Value(c) ==
    IF c >= 65 /\ c <= 90 THEN c - 65
    ELSE IF c >= 97 /\ c <= 122 THEN c - 71
    ELSE IF c >= 48 /\ c <= 57 THEN c + 4
    ELSE IF c = 43 THEN 62
    ELSE IF c = 47 THEN 63
    ELSE NaN

StripWhitespace(s) == SelectSeq(s, LAMBDA c : ~IsAsciiWhitespace(c))

StripPadding(s) ==
    IF Len(s) % 4 = 0 /\ Len(s) > 0 /\ s[Len(s)] = 61
    THEN IF s[Len(s) - 1] = 61 THEN SubSeq(s, 1, Len(s) - 2)
         ELSE SubSeq(s, 1, Len(s) - 1)
    ELSE s

RECURSIVE DecodeSextets(_)
DecodeSextets(s) ==
    IF Len(s) >= 4 THEN
        LET n == Base64Value(s[1]) * 262144 + Base64Value(s[2]) * 4096
                 + Base64Value(s[3]) * 64 + Base64Value(s[4])
        IN <<n \div 65536, (n \div 256) % 256, n % 256>>
           \o DecodeSextets(SubSeq(s, 5, Len(s)))
    ELSE IF Len(s) = 3 THEN
        LET n == Base64Value(s[1]) * 4096 + Base64Value(s[2]) * 64
                 + Base64Value(s[3])
        IN <<n \div 1024, (n \div 4) % 256>>
    ELSE IF Len(s) = 2 THEN
        <<(Base64Value(s[1]) * 64 + Base64Value(s[2])) \div 16>>
    ELSE <<>>

atob(data) ==
    LET s == StripPadding(StripWhitespace(data))
    IN IF Len(s) % 4 = 1 THEN InvalidCharacterError
       ELSE IF \E p \in DOMAIN s : Base64Value(s[p]) = NaN
            THEN InvalidCharacterError
       ELSE DecodeSextets(s)

-----------------------------------------------------------------------------
(* buildMapping.                                                           *)

\* const cp = (raw.charCodeAt(o) << 16) | (raw.charCodeAt(o+1) << 8) | raw.charCodeAt(o+2)
RecordCp(r, o) ==
    BitOr(BitOr(Shl(charCodeAt(r, o), 16), Shl(charCodeAt(r, o + 1), 8)),
          charCodeAt(r, o + 2))

\* const big5 = (raw.charCodeAt(o+3) << 8) | raw.charCodeAt(o+4)
RecordBig5(r, o) == BitOr(Shl(charCodeAt(r, o + 3), 8), charCodeAt(r, o + 4))

\* big5Hex without the padStart
big5Hex_noPad(big5) == toUpperCase(toString16(big5))

\* big5.toString(16).toUpperCase().padStart(4, '0')
big5Hex(big5) == padStart(toUpperCase(toString16(big5)), 4, 48)

\* map.set(String.fromCodePoint(cp), big5Hex)
BuildSet(m, r, o) == MapSet(m, fromCodePoint(RecordCp(r, o)), big5Hex(RecordBig5(r, o)))

\* ReverseSet keeping the first character of a code instead of the last
ReverseSet_keepFirst(rm, entry) ==
    IF MapHas(rm, entry[2]) THEN rm ELSE MapSet(rm, entry[2], entry[1])

\* ReverseSet without the inversion: keyed by the character
ReverseSet_notInverted(rm, entry) == MapSet(rm, entry[1], entry[2])

\* REVERSE_MAPPING.set(big5, char) for the entry [char, big5]
ReverseSet(rm, entry) == MapSet(rm, entry[2], entry[1])

-----------------------------------------------------------------------------
(* Strings of the transcoder.                                              *)

\* the line break '\n'
NL == 10
\* the separator of App.textOutput: U+2605 BLACK STAR
STAR == 9733
\* the separator literal of the single-line variant, as its file spells it:
\* U+00E2 U+02DC U+2026
outputSeparator == <<226, 732, 8230>>
\* '????'
PLACEHOLDER == <<63, 63, 63, 63>>

IsHighSurrogate(c) == c >= 55296 /\ c <= 56319
IsLowSurrogate(c) == c >= 56320 /\ c <= 57343

\* String.prototype.split('\n')
RECURSIVE split(_, _)
split(s, sep) ==
    IF \E p \in DOMAIN s : s[p] = sep
    THEN LET q == CHOOSE p \in DOMAIN s : s[p] = sep /\ \A r \in 1..(p - 1) : s[r] # sep
         IN <<SubSeq(s, 1, q - 1)>> \o split(SubSeq(s, q + 1, Len(s)), sep)
    ELSE <<s>>

\* the string iterator ([...line], for (const char of input)): one element per
\* code point, a high surrogate followed by a low surrogate being one element
RECURSIVE StringIterator(_)
StringIterator(s) ==
    IF s = <<>> THEN <<>>
    ELSE IF Len(s) >= 2 /\ IsHighSurrogate(s[1]) /\ IsLowSurrogate(s[2])
         THEN <<SubSeq(s, 1, 2)>> \o StringIterator(SubSeq(s, 3, Len(s)))
    ELSE <<SubSeq(s, 1, 1)>> \o StringIterator(SubSeq(s, 2, Len(s)))

\* Array.prototype.join
RECURSIVE join(_, _)
join(a, sep) ==
    IF a = <<>> THEN <<>>
    ELSE IF Len(a) = 1 THEN a[1]
    ELSE a[1] \o sep \o join(Tail(a), sep)

\* codeOf echoing the character on a miss instead of the placeholder
codeOf_echoOnMiss(m, char) == IF MapGet(m, char) = undefined THEN char ELSE MapGet(m, char)

\* MAPPING.get(char) ?? '????'
codeOf(m, char) == IF MapGet(m, char) = undefined THEN PLACEHOLDER ELSE MapGet(m, char)

\* line => [...line].map(char => ({ code: MAPPING.get(char) ?? '????', char }))
lineEntries(m, line) ==
    LET chars == StringIterator(line)
    IN [k \in DOMAIN chars |-> [code |-> codeOf(m, chars[k]), char |-> chars[k]]]

\* codeLinesOf without the guard on the empty input
codeLinesOf_noEmptyGuard(m, text) ==
    LET lines == split(text, NL)
    IN [n \in DOMAIN lines |-> lineEntries(m, lines[n])]

\* the body of the codeLines memo
codeLinesOf(m, text) ==
    IF text = <<>> THEN <<>>
    ELSE LET lines == split(text, NL)
         IN [n \in DOMAIN lines |-> lineEntries(m, lines[n])]

\* formatEntry writing the character before the code
formatEntry_charFirst(e, annotate) ==
    IF annotate THEN e.char \o <<40>> \o e.code \o <<41>> ELSE e.code

\* ({ code, char }) => showAnnotation ? `${code}(${char})` : code
formatEntry(e, annotate) ==
    IF annotate THEN e.code \o <<40>> \o e.char \o <<41>> ELSE e.code

\* the body of the textOutput memo
textOutputOf(cl, annotate) ==
    join([n \in DOMAIN cl |->
            join([k \in DOMAIN cl[n] |-> formatEntry(cl[n][k], annotate)], <<STAR>>)],
         <<NL>>)

\* the body of the output memo of the single-line variant
outputOf(m, text) ==
    IF text = <<>> THEN <<>>
    ELSE LET chars == StringIterator(text)
         IN join([k \in DOMAIN chars |-> codeOf(m, chars[k])], outputSeparator)

-----------------------------------------------------------------------------
(* ReverseLookup: the values computed on every render.                     *)

\* /[0-9A-Fa-f]/
IsHexChar(c) ==
    \/ c >= 48 /\ c <= 57
    \/ c >= 65 /\ c <= 70
    \/ c >= 97 /\ c <= 102

\* [0-9A-F]
IsUpperHexChar(c) == (c >= 48 /\ c <= 57) \/ (c >= 65 /\ c <= 70)

RECURSIVE concat(_)
concat(a) == IF a = <<>> THEN <<>> ELSE Head(a) \o concat(Tail(a))

\* codeOfCells without the toUpperCase
codeOfCells_noUpper(cs) == concat(cs)

\* const code = cells.map(c => c.toUpperCase()).join('')
codeOfCells(cs) == concat([k \in DOMAIN cs |-> toUpperCase(cs[k])])

\* const isComplete = /^[0-9A-F]{4}$/.test(code)
isCompleteCode(code) == Len(code) = 4 /\ \A p \in DOMAIN code : IsUpperHexChar(code[p])

\* const resultChar = isComplete ? REVERSE_MAPPING.get(code) : undefined
resultCharOf(rm, cs) ==
    IF isCompleteCode(codeOfCells(cs)) THEN MapGet(rm, codeOfCells(cs)) ELSE undefined

\* JavaScript truthiness of a string-or-undefined value
Truthy(v) == v # undefined /\ v # <<>>

\* the result box: isComplete && resultChar ? char : isComplete ? "not found" : "?"
resultView(rm, cs) ==
    IF isCompleteCode(codeOfCells(cs)) /\ Truthy(resultCharOf(rm, cs))
    THEN <<"found", resultCharOf(rm, cs)>>
    ELSE IF isCompleteCode(codeOfCells(cs)) THEN <<"not found">>
    ELSE <<"incomplete">>

\* lastHex without the toUpperCase
lastHex_noUpper(rawText) ==
    LET h == SelectSeq(rawText, IsHexChar)
    IN IF h = <<>> THEN <<>> ELSE <<h[Len(h)]>>

\* raw.replace(/[^0-9A-Fa-f]/g, '').toUpperCase().slice(-1)
lastHex(rawText) ==
    LET h == toUpperCase(SelectSeq(rawText, IsHexChar))
    IN IF h = <<>> THEN <<>> ELSE <<h[Len(h)]>>

-----------------------------------------------------------------------------
(* The values ./big5-data may export.  A table asset is the base64 text of *)
(* N packed 5-byte records; the enumerated assets are encodings of record  *)
(* sequences, possibly cut short, and texts that are not base64.           *)

Base64Char(v) ==
    IF v < 26 THEN 65 + v
    ELSE IF v < 52 THEN 71 + v
    ELSE IF v < 62 THEN v - 4
    ELSE IF v = 62 THEN 43
    ELSE 47

RECURSIVE btoa(_)
btoa(b) ==
    IF Len(b) >= 3 THEN
        LET n == b[1] * 65536 + b[2] * 256 + b[3]
        IN <<Base64Char(n \div 262144), Base64Char((n \div 4096) % 64),
             Base64Char((n \div 64) % 64), Base64Char(n % 64)>>
           \o btoa(SubSeq(b, 4, Len(b)))
    ELSE IF Len(b) = 2 THEN
        LET n == b[1] * 1024 + b[2] * 4
        IN <<Base64Char(n \div 4096), Base64Char((n \div 64) % 64),
             Base64Char(n % 64), 61>>
    ELSE IF Len(b) = 1 THEN
        <<Base64Char(b[1] \div 4), Base64Char((b[1] % 4) * 16), 61, 61>>
    ELSE <<>>

\* one packed record: 24-bit big-endian code point, 16-bit big-endian code
RecordBytes(rec) ==
    <<rec[1] \div 65536, (rec[1] \div 256) % 256, rec[1] % 256,
      rec[2] \div 256, rec[2] % 256>>

RECURSIVE TableBytes(_)
TableBytes(recs) ==
    IF recs = <<>> THEN <<>>
    ELSE RecordBytes(Head(recs)) \o TableBytes(Tail(recs))

\* <<code point, Big5 code>> pairs the enumerated tables are made of:
\* U+2605 and U+20000 under the codes A1B9 and 00AB, and one record whose
\* code point 0x110000 is past the Unicode range
EnumRecords ==
    {<<9733, 41401>>, <<9733, 171>>, <<131072, 41401>>, <<131072, 171>>,
     <<1114112, 171>>}

EnumTables == UNION {[1..n -> EnumRecords] : n \in 0..MaxRecords}

\* texts atob rejects: "A" (length 1 mod 4), "AA!A" (a character outside the
\* alphabet), "A=AA" (padding inside)
MalformedTexts == {<<65>>, <<65, 65, 33, 65>>, <<65, 61, 65, 65>>}

\* the tables of the application runs:
\*   U+2605 -> A1B9, U+20000 -> AAAA, U+000A -> 000A
TableA == <<<<9733, 41401>>, <<131072, 43690>>, <<10, 10>>>>
\*   U+20000 -> 00AB
TableB == <<<<131072, 171>>>>
\*   0x110000 -> 00AB
TableC == <<<<1114112, 171>>>>

-----------------------------------------------------------------------------
(* Initial states.                                                         *)

InitLoad(data, count) ==
    /\ BIG5_DATA = data
    /\ BIG5_COUNT = count
    /\ pc = "atob"
    /\ raw = <<>>
    /\ i = 0
    /\ map = <<>>
    /\ MAPPING = <<>>
    /\ REVERSE_MAPPING = <<>>
    /\ j = 0

InitApp ==
    /\ input = <<>>
    /\ copied = FALSE
    /\ timers = 0
    /\ showAnnotation = FALSE
    /\ blockMode = FALSE
    /\ codeLines = <<>>
    /\ textOutput = <<>>
    /\ output = <<>>

InitCells == cells = <<<<>>, <<>>, <<>>, <<>>>>

\* any table of at most MaxRecords records, the asset holding any prefix of
\* its bytes; or a text that is not base64
InitBuild ==
    /\ \/ \E t \in EnumTables : \E n \in 0..(5 * Len(t)) :
              InitLoad(btoa(SubSeq(TableBytes(t), 1, n)), Len(t))
       \/ \E m \in MalformedTexts : InitLoad(m, 1)
    /\ InitApp
    /\ InitCells

Init ==
    /\ \/ \E t \in {TableA, TableB, TableC} : InitLoad(btoa(TableBytes(t)), Len(t))
       \/ InitLoad(<<65>>, 1)
    /\ InitApp
    /\ InitCells

-----------------------------------------------------------------------------
(* Module load: const MAPPING = buildMapping(); then the for-of loop that  *)
(* fills REVERSE_MAPPING; then the components mount.                       *)

\* const raw = atob(BIG5_DATA), the call returning
AtobReturns ==
    /\ pc = "atob"
    /\ atob(BIG5_DATA) # InvalidCharacterError
    /\ raw' = atob(BIG5_DATA)
    /\ pc' = "build"
    /\ UNCHANGED <<BIG5_DATA, BIG5_COUNT, i, map, MAPPING, REVERSE_MAPPING, j,
                   appVars, cells>>

\* const raw = atob(BIG5_DATA), the call throwing: module evaluation fails
AtobThrows ==
    /\ pc = "atob"
    /\ atob(BIG5_DATA) = InvalidCharacterError
    /\ pc' = "fatal"
    /\ UNCHANGED <<loadVars, appVars, cells>>

\* one iteration of the for loop
BuildRecord ==
    /\ pc = "build"
    /\ i < BIG5_COUNT
    /\ ~fromCodePointThrows(RecordCp(raw, i * 5))
    /\ map' = BuildSet(map, raw, i * 5)
    /\ i' = i + 1
    /\ UNCHANGED <<BIG5_DATA, BIG5_COUNT, pc, raw, MAPPING, REVERSE_MAPPING, j,
                   appVars, cells>>

\* one iteration of the for loop, String.fromCodePoint throwing RangeError
BuildRecordThrows ==
    /\ pc = "build"
    /\ i < BIG5_COUNT
    /\ fromCodePointThrows(RecordCp(raw, i * 5))
    /\ pc' = "fatal"
    /\ UNCHANGED <<loadVars, appVars, cells>>

\* return map; const MAPPING = buildMapping()
BuildReturn ==
    /\ pc = "build"
    /\ ~(i < BIG5_COUNT)
    /\ MAPPING' = map
    /\ pc' = "reverse"
    /\ UNCHANGED <<BIG5_DATA, BIG5_COUNT, raw, i, map, REVERSE_MAPPING, j,
                   appVars, cells>>

\* one iteration of for (const [char, big5] of MAPPING)
ReverseInsert ==
    /\ pc = "reverse"
    /\ j < Len(MAPPING)
    /\ REVERSE_MAPPING' = ReverseSet(REVERSE_MAPPING, MAPPING[j + 1])
    /\ j' = j + 1
    /\ UNCHANGED <<BIG5_DATA, BIG5_COUNT, pc, raw, i, map, MAPPING, appVars, cells>>

\* the loop is exhausted; App and ReverseLookup render with their initial state
Mount ==
    /\ pc = "reverse"
    /\ ~(j < Len(MAPPING))
    /\ pc' = "mounted"
    /\ UNCHANGED <<loadVars, appVars, cells>>

NextLoad ==
    \/ AtobReturns
    \/ AtobThrows
    \/ BuildRecord
    \/ BuildRecordThrows
    \/ BuildReturn
    \/ ReverseInsert
    \/ Mount

SpecBuild == InitBuild /\ [][NextLoad]_vars

-----------------------------------------------------------------------------
(* App: the handlers, each followed by the re-render that recomputes the   *)
(* memos whose dependencies changed.                                       *)

\* code units the edited text is made of: the star, the line break, a high
\* and a low surrogate (together U+20000)
InputUnits == {STAR, NL, 55360, 56320}

\* the values one edit of the textarea can give it: one code unit inserted
\* anywhere, or one code unit deleted
EditedTexts(text) ==
    {SubSeq(text, 1, p) \o <<c>> \o SubSeq(text, p + 1, Len(text)) :
        p \in 0..Len(text), c \in IF Len(text) < MaxInputLen THEN InputUnits ELSE {}}
    \cup {SubSeq(text, 1, p - 1) \o SubSeq(text, p + 1, Len(text)) : p \in DOMAIN text}

\* setInput(value) and the render after it
setInput(value) ==
    /\ input' = value
    /\ codeLines' = codeLinesOf(MAPPING, value)
    /\ textOutput' = textOutputOf(codeLinesOf(MAPPING, value), showAnnotation)
    /\ output' = outputOf(MAPPING, value)

\* onChangeInput storing the placeholder in MAPPING for a first character the
\* lookup misses
onChangeInput_cachesMiss ==
    /\ pc = "mounted"
    /\ \E value \in EditedTexts(input) :
          /\ setInput(value)
          /\ MAPPING' = IF value # <<>> /\ ~MapHas(MAPPING, StringIterator(value)[1])
                        THEN MapSet(MAPPING, StringIterator(value)[1], PLACEHOLDER)
                        ELSE MAPPING
    /\ UNCHANGED <<pc, BIG5_DATA, BIG5_COUNT, raw, i, map, REVERSE_MAPPING, j,
                   copied, timers, showAnnotation, blockMode, cells>>

\* onChange={e => setInput(e.target.value)}
onChangeInput ==
    /\ pc = "mounted"
    /\ \E value \in EditedTexts(input) : setInput(value)
    /\ UNCHANGED <<pc, loadVars, copied, timers, showAnnotation, blockMode, cells>>

\* const handleClear = () => setInput(''); the button shows when input is truthy
handleClear ==
    /\ pc = "mounted"
    /\ input # <<>>
    /\ setInput(<<>>)
    /\ UNCHANGED <<pc, loadVars, copied, timers, showAnnotation, blockMode, cells>>

\* handleCopy; the button shows when textOutput is truthy
handleCopy ==
    /\ pc = "mounted"
    /\ textOutput # <<>>
    /\ timers < MaxTimers
    /\ copied' = TRUE
    /\ timers' = timers + 1
    /\ UNCHANGED <<pc, loadVars, input, showAnnotation, blockMode, codeLines,
                   textOutput, output, cells>>

\* the callback of setTimeout(() => setCopied(false), 2000)
copyTimeout ==
    /\ pc = "mounted"
    /\ timers > 0
    /\ copied' = FALSE
    /\ timers' = timers - 1
    /\ UNCHANGED <<pc, loadVars, input, showAnnotation, blockMode, codeLines,
                   textOutput, output, cells>>

\* onClick={() => setBlockMode(v => !v)}
toggleBlockMode ==
    /\ pc = "mounted"
    /\ blockMode' = ~blockMode
    /\ UNCHANGED <<pc, loadVars, input, copied, timers, showAnnotation, codeLines,
                   textOutput, output, cells>>

\* toggleAnnotation with showAnnotation missing from the memo's dependencies
toggleAnnotation_staleMemo ==
    /\ pc = "mounted"
    /\ showAnnotation' = ~showAnnotation
    /\ UNCHANGED <<pc, loadVars, input, copied, timers, blockMode, codeLines,
                   textOutput, output, cells>>

\* onClick={() => setShowAnnotation(v => !v)} and the render after it
toggleAnnotation ==
    /\ pc = "mounted"
    /\ showAnnotation' = ~showAnnotation
    /\ textOutput' = textOutputOf(codeLines, ~showAnnotation)
    /\ UNCHANGED <<pc, loadVars, input, copied, timers, blockMode, codeLines,
                   output, cells>>

-----------------------------------------------------------------------------
(* ReverseLookup: the handlers.  Focus moves act on the DOM only.          *)

RECURSIVE TextsOver(_, _)
TextsOver(units, n) ==
    IF n = 0 THEN {<<>>}
    ELSE TextsOver(units, n - 1)
         \cup {Append(t, c) : t \in TextsOver(units, n - 1), c \in units}

\* values of e.target.value: "", "a", "g"
RawTexts == TextsOver({97, 103}, 1)
\* values of e.target.value (the inputs have maxLength 2): the texts of at
\* most two characters over "a", "B", "g"
RawTextsWide == TextsOver({97, 66, 103}, 2)

Keys == {"Backspace", "ArrowRight", "ArrowLeft", "Enter"}

handleChange(idx, rawText) ==
    /\ pc = "mounted"
    /\ cells' = [cells EXCEPT ![idx + 1] = lastHex(rawText)]
    /\ UNCHANGED <<pc, loadVars, appVars>>

handleKeyDown(idx, key) ==
    /\ pc = "mounted"
    /\ cells' = IF key = "Backspace" /\ cells[idx + 1] # <<>>
                THEN [cells EXCEPT ![idx + 1] = <<>>]
                ELSE cells
    /\ UNCHANGED <<pc, loadVars, appVars>>

\* ReverseLookup.handleClear; the button shows when cells.some(c => c)
handleClearCells ==
    /\ pc = "mounted"
    /\ \E k \in DOMAIN cells : cells[k] # <<>>
    /\ cells' = <<<<>>, <<>>, <<>>, <<>>>>
    /\ UNCHANGED <<pc, loadVars, appVars>>

onChangeCell == \E idx \in 0..3 : \E rawText \in RawTexts : handleChange(idx, rawText)
onChangeCellWide == \E idx \in 0..3 : \E rawText \in RawTextsWide : handleChange(idx, rawText)
onKeyDownCell == \E idx \in 0..3 : \E key \in Keys : handleKeyDown(idx, key)

Next ==
    \/ NextLoad
    \/ onChangeInput
    \/ handleClear
    \/ handleCopy
    \/ copyTimeout
    \/ toggleBlockMode
    \/ toggleAnnotation
    \/ onChangeCell
    \/ onKeyDownCell
    \/ handleClearCells

Spec == Init /\ [][Next]_vars

\* the resolver on arbitrary candidates: four cells, each empty or one of
\* "a", "A", "B", "g"
CandidateCells == {<<>>, <<97>>, <<65>>, <<66>>, <<103>>}

InitLookup ==
    /\ \E t \in {TableA, TableB} : InitLoad(btoa(TableBytes(t)), Len(t))
    /\ InitApp
    /\ cells \in [1..4 -> CandidateCells]

NextLookup ==
    \/ AtobReturns
    \/ BuildRecord
    \/ BuildReturn
    \/ ReverseInsert
    \/ Mount
    \/ onChangeCellWide
    \/ onKeyDownCell
    \/ handleClearCells

SpecLookup == InitLookup /\ [][NextLookup]_vars

\* values of e.target.value (the inputs have maxLength 2): the texts of at
\* most two characters over "0", "F", "a", "g" and the star
RawTextsCells == TextsOver({48, 70, 97, 103, STAR}, 2)

onChangeCellAny == \E idx \in 0..3 : \E rawText \in RawTextsCells : handleChange(idx, rawText)

\* the reverse lookup from its mounted state, every cell empty
InitCellsEmpty ==
    /\ \E t \in {TableA, TableB} : InitLoad(btoa(TableBytes(t)), Len(t))
    /\ InitApp
    /\ InitCells

NextCells ==
    \/ AtobReturns
    \/ BuildRecord
    \/ BuildReturn
    \/ ReverseInsert
    \/ Mount
    \/ onChangeCellAny
    \/ onKeyDownCell
    \/ handleClearCells

SpecCells == InitCellsEmpty /\ [][NextCells]_vars

-----------------------------------------------------------------------------
(* Properties of the table construction, checked under SpecBuild.          *)

\* position p holds the last entry, in iteration order, with its code
IsLastWithCode(m, p) == \A q \in DOMAIN m : m[q][2] = m[p][2] => q <= p

\* C1, as stated: once the maps are built, reverse(forward(c)) = c for every
\* character c of the ForwardMap.
C1_RoundTripEveryChar ==
    pc = "mounted" =>
        \A c \in MapKeys(MAPPING) :
            MapGet(REVERSE_MAPPING, MapGet(MAPPING, c)) = c

\* C1, amended: every code h of the ReverseMap resolves to a character whose
\* forward code is h; every forward code resolves; and reverse(forward(c)) = c
\* holds exactly for the characters that come last, in ForwardMap iteration
\* order, among those sharing their code (so for every character when no two
\* share a code).
C1_RoundTripLastOfCode ==
    pc = "mounted" =>
        /\ \A h \in MapKeys(REVERSE_MAPPING) :
              /\ MapHas(MAPPING, MapGet(REVERSE_MAPPING, h))
              /\ MapGet(MAPPING, MapGet(REVERSE_MAPPING, h)) = h
        /\ \A p \in DOMAIN MAPPING :
              /\ MapHas(REVERSE_MAPPING, MAPPING[p][2])
              /\ (MapGet(REVERSE_MAPPING, MAPPING[p][2]) = MAPPING[p][1])
                    <=> IsLastWithCode(MAPPING, p)

\* C1 witness: the maps are built and two characters share a code.
C1_SharedCodeBuilt ==
    /\ pc = "mounted"
    /\ \E p, q \in DOMAIN MAPPING : p < q /\ MAPPING[p][2] = MAPPING[q][2]

\* C7, as stated: construction never completes when the decoded blob is
\* shorter than BIG5_COUNT * 5 bytes or the text is not base64; it ends fatal.
C7_ShortBlobIsFatal ==
    /\ pc \in {"reverse", "mounted"} => Len(raw) >= BIG5_COUNT * 5
    /\ (pc # "atob" /\ atob(BIG5_DATA) = InvalidCharacterError) => pc = "fatal"

\* the code point and the code of record n (0-based) of a binary string,
\* read directly from its bytes
CpAt(r, n) == r[5 * n + 1] * 65536 + r[5 * n + 2] * 256 + r[5 * n + 3]
CodeAt(r, n) == r[5 * n + 4] * 256 + r[5 * n + 5]

\* the code point a one-character string holds
CodePointOf(ch) ==
    IF Len(ch) = 2 THEN 65536 + (ch[1] - 55296) * 1024 + (ch[2] - 56320)
    ELSE ch[1]

\* the number an upper-case hexadecimal digit stands for
UpperHexDigitValue(c) == IF c <= 57 THEN c - 48 ELSE c - 55

\* the number four upper-case hexadecimal digits stand for
Hex4Value(h) ==
    UpperHexDigitValue(h[1]) * 4096 + UpperHexDigitValue(h[2]) * 256
    + UpperHexDigitValue(h[3]) * 16 + UpperHexDigitValue(h[4])

\* C9: for a blob holding all BIG5_COUNT records, the ForwardMap built has
\* one key per distinct code point, each a single character; no other key;
\* every value is 4 upper-case hex digits; and the value of a code point is
\* the code of the highest-indexed record with that code point.
C9_ForwardMapOfRecords ==
    (pc \in {"reverse", "mounted"} /\ Len(raw) >= BIG5_COUNT * 5) =>
        /\ Cardinality(MapKeys(MAPPING)) = Len(MAPPING)
        /\ \A c \in MapKeys(MAPPING) :
              /\ Len(StringIterator(c)) = 1
              /\ \E n \in 0..(BIG5_COUNT - 1) : CodePointOf(c) = CpAt(raw, n)
        /\ \A v \in MapValues(MAPPING) :
              Len(v) = 4 /\ \A p \in 1..4 : IsUpperHexChar(v[p])
        /\ \A n \in 0..(BIG5_COUNT - 1) :
              \E c \in MapKeys(MAPPING) :
                 /\ CodePointOf(c) = CpAt(raw, n)
                 /\ LET last == CHOOSE k \in 0..(BIG5_COUNT - 1) :
                                   /\ CpAt(raw, k) = CpAt(raw, n)
                                   /\ \A l \in 0..(BIG5_COUNT - 1) :
                                         CpAt(raw, l) = CpAt(raw, n) => l <= k
                    IN Hex4Value(MapGet(MAPPING, c)) = CodeAt(raw, last)

\* C9 witness: a complete blob whose records repeat a code point, built into
\* a map holding a zero-padded code and a supplementary-plane character.
C9_RepeatedAndPadded ==
    /\ pc = "mounted"
    /\ Len(raw) >= BIG5_COUNT * 5
    /\ BIG5_COUNT > Len(MAPPING)
    /\ \E p \in DOMAIN MAPPING : MAPPING[p][2][1] = 48
    /\ \E p \in DOMAIN MAPPING : Len(MAPPING[p][1]) = 2

\* C10: the ReverseMap is filled in one pass over the ForwardMap: after j
\* entries its keys are the codes of the first j entries, one entry per code,
\* each holding the last of those j characters with that code; once mounted
\* its keys are exactly the ForwardMap's values.
C10_ReverseIsLastWins ==
    pc \in {"reverse", "mounted"} =>
        /\ MapKeys(REVERSE_MAPPING) = {MAPPING[p][2] : p \in 1..j}
        /\ Cardinality(MapKeys(REVERSE_MAPPING)) = Len(REVERSE_MAPPING)
        /\ \A h \in MapKeys(REVERSE_MAPPING) :
              LET last == CHOOSE p \in 1..j :
                              /\ MAPPING[p][2] = h
                              /\ \A q \in 1..j : MAPPING[q][2] = h => q <= p
              IN MapGet(REVERSE_MAPPING, h) = MAPPING[last][1]
        /\ pc = "mounted" => /\ j = Len(MAPPING)
                             /\ MapKeys(REVERSE_MAPPING) = MapValues(MAPPING)

\* C10 witness: mounted, two characters sharing one code, the first of them
\* being the character of the last record (which re-set it in place): the
\* ReverseMap holds the second.
C10_SharedCodeInverted ==
    /\ pc = "mounted"
    /\ Len(raw) >= BIG5_COUNT * 5
    /\ Len(MAPPING) = 2
    /\ Len(REVERSE_MAPPING) = 1
    /\ CpAt(raw, BIG5_COUNT - 1) = CodePointOf(MAPPING[1][1])
    /\ REVERSE_MAPPING[1][2] = MAPPING[2][1]

-----------------------------------------------------------------------------
(* Reference notions of line and character, stated on positions.           *)

\* the positions of the line breaks of a text
Breaks(text) == {p \in DOMAIN text : text[p] = NL}

\* number of lines of a text: one more than its line breaks
LineCount(text) == Cardinality(Breaks(text)) + 1

\* the k-th smallest member of a set of positions
KthOf(S, k) == CHOOSE p \in S : Cardinality({q \in S : q < p}) = k - 1

\* the n-th line: the units after line break n - 1 and before line break n
NthLine(text, n) ==
    LET from == IF n = 1 THEN 1 ELSE KthOf(Breaks(text), n - 1) + 1
        to == IF n = LineCount(text) THEN Len(text) ELSE KthOf(Breaks(text), n) - 1
    IN SubSeq(text, from, to)

\* a low surrogate right after a high surrogate is the second half of a
\* supplementary-plane character; every other unit starts a character
IsTrail(line, p) == p > 1 /\ IsLowSurrogate(line[p]) /\ IsHighSurrogate(line[p - 1])
CharStarts(line) == {p \in DOMAIN line : ~IsTrail(line, p)}
CharCount(line) == Cardinality(CharStarts(line))

\* the k-th Unicode character of a line
NthChar(line, k) ==
    LET p == KthOf(CharStarts(line), k)
    IN IF (p + 1) \in DOMAIN line /\ IsTrail(line, p + 1)
       THEN <<line[p], line[p + 1]>> ELSE <<line[p]>>

\* the text holds an unpaired surrogate
HasUnpairedSurrogate(text) ==
    \E p \in DOMAIN text :
       \/ IsLowSurrogate(text[p]) /\ ~IsTrail(text, p)
       \/ /\ IsHighSurrogate(text[p])
          /\ ~((p + 1) \in DOMAIN text /\ IsLowSurrogate(text[p + 1]))

\* the entries of one line of the text output, read back from the left: four
\* units of code, then with annotation "(", one character, ")"; entries are
\* separated by one star.  A line that is not of this form yields an entry
\* with code "malformed".
RECURSIVE ParsedEntries(_, _)
ParsedEntries(l, annotate) ==
    IF l = <<>> THEN <<>>
    ELSE
        LET cl == IF Len(l) >= 7 /\ IsHighSurrogate(l[6]) /\ IsLowSurrogate(l[7])
                  THEN 2 ELSE 1
            n == IF annotate THEN 6 + cl ELSE 4
            wellFormed ==
                /\ Len(l) >= n
                /\ annotate => (l[5] = 40 /\ l[n] = 41)
                /\ Len(l) > n => (l[n + 1] = STAR /\ Len(l) > n + 1)
        IN IF ~wellFormed THEN <<[code |-> <<>>, char |-> <<>>]>>
           ELSE <<[code |-> SubSeq(l, 1, 4),
                   char |-> IF annotate THEN SubSeq(l, 6, 5 + cl) ELSE <<>>]>>
                \o (IF Len(l) > n THEN ParsedEntries(SubSeq(l, n + 2, Len(l)), annotate)
                    ELSE <<>>)

\* the codes of the entries of line n of a text output
ParsedCodes(text, annotate, n) ==
    LET es == ParsedEntries(NthLine(text, n), annotate)
    IN [k \in DOMAIN es |-> es[k].code]

-----------------------------------------------------------------------------
(* Properties of the transcoder, checked under Spec.                       *)

\* the first half of C2: entry k of line n is decided by character k of
\* input line n alone: its ForwardMap code, which is never the placeholder,
\* when the character is in the table, and "????" when it is not; without
\* annotation the entry is units 5(k-1)+1 .. 5(k-1)+4 of output line n.
EntriesFollowCharacters ==
    \A n \in 1..LineCount(input) :
       \A k \in 1..CharCount(NthLine(input, n)) :
          LET ch == NthChar(NthLine(input, n), k)
          IN /\ n \in DOMAIN codeLines
             /\ k \in DOMAIN codeLines[n]
             /\ codeLines[n][k].code =
                   IF ch \in MapKeys(MAPPING) THEN MapGet(MAPPING, ch) ELSE PLACEHOLDER
             /\ ch \in MapKeys(MAPPING) => codeLines[n][k].code # PLACEHOLDER
             /\ ~showAnnotation =>
                   SubSeq(NthLine(textOutput, n), 5 * (k - 1) + 1, 5 * (k - 1) + 4)
                      = codeLines[n][k].code

\* the input is one character of the table
SingleTableCharacter == CharCount(input) = 1 /\ input \in MapKeys(MAPPING)

\* the output holds one entry, the code of the input character: alone without
\* annotation, followed by "(character)" with it
YieldsItsCode ==
    /\ codeLines = <<<<[code |-> MapGet(MAPPING, input), char |-> input]>>>>
    /\ textOutput = IF showAnnotation
                    THEN MapGet(MAPPING, input) \o <<40>> \o input \o <<41>>
                    ELSE MapGet(MAPPING, input)

\* C2, as stated: every entry follows its character, and in particular an
\* input of one table character yields exactly that character's code.
C2_EntryPerCharacter ==
    pc = "mounted" =>
        /\ EntriesFollowCharacters
        /\ SingleTableCharacter => YieldsItsCode

\* C2, amended: every entry follows its character, and an input of one table
\* character other than the line break yields exactly that character's code;
\* the line break alone yields two empty lines.
C2_EntryPerCharacterButBreak ==
    pc = "mounted" =>
        /\ EntriesFollowCharacters
        /\ (SingleTableCharacter /\ input # <<NL>>) => YieldsItsCode
        /\ input = <<NL>> => (codeLines = <<<<>>, <<>>>> /\ textOutput = <<NL>>)

\* C2 witness: one line holding a supplementary-plane character of the table
\* and a character that is not in the table, shown without annotation.
C2_MappedAndPlaceholder ==
    /\ pc = "mounted"
    /\ ~showAnnotation
    /\ Len(codeLines) = 1
    /\ \E k \in DOMAIN codeLines[1] :
          Len(codeLines[1][k].char) = 2 /\ codeLines[1][k].code # PLACEHOLDER
    /\ \E k \in DOMAIN codeLines[1] : codeLines[1][k].code = PLACEHOLDER

\* C3 on a text output and the separator it is joined with: one segment per
\* input line; segment n holds one 4-unit entry per character of input line
\* n, entries being joined by exactly one separator, none at either end.
SegmentsFollowLines(text, sep) ==
    /\ LineCount(text) = LineCount(input)
    /\ \A n \in 1..LineCount(input) :
          LET seg == NthLine(text, n)
              c == CharCount(NthLine(input, n))
              w == 4 + Len(sep)
          IN /\ Len(seg) = IF c = 0 THEN 0 ELSE w * c - Len(sep)
             /\ \A k \in 1..(c - 1) :
                   SubSeq(seg, w * k - Len(sep) + 1, w * k) = sep
             /\ \A k \in 1..c : \A p \in (w * (k - 1) + 1)..(w * (k - 1) + 4) :
                   p \in DOMAIN seg /\ seg[p] \notin {STAR, NL}

\* C3 on App.codeLines and App.textOutput: one array and one segment per
\* input line, one entry per character; no star at either end of a segment.
C3_TextOutputLines ==
    (pc = "mounted" /\ input # <<>>) =>
        /\ Len(codeLines) = LineCount(input)
        /\ \A n \in DOMAIN codeLines : Len(codeLines[n]) = CharCount(NthLine(input, n))
        /\ LineCount(textOutput) = LineCount(input)
        /\ ~showAnnotation => SegmentsFollowLines(textOutput, <<STAR>>)
        /\ \A n \in 1..LineCount(textOutput) :
              LET seg == NthLine(textOutput, n)
              IN seg # <<>> => (seg[1] # STAR /\ seg[Len(seg)] # STAR)

\* C3, as stated, on both transcoders of the repository: App.textOutput and
\* the single-line variant's App.output.
C3_OneSegmentPerLine ==
    (pc = "mounted" /\ input # <<>>) =>
        /\ C3_TextOutputLines
        /\ SegmentsFollowLines(output, outputSeparator)

\* C4: with the empty input the memos are the empty sequence of lines and
\* the empty string, whatever the annotate flag and the history.
C4_EmptyInputEmptyOutput ==
    (pc = "mounted" /\ input = <<>>) =>
        /\ codeLines = <<>>
        /\ textOutput = <<>>
        /\ output = <<>>

\* C4 witness: the input is empty again after a non-empty output was copied,
\* with annotation switched on.
C4_EmptyAgain ==
    /\ pc = "mounted"
    /\ input = <<>>
    /\ showAnnotation
    /\ copied

\* the annotated output is well formed, and entry k of line n carries
\* character k of input line n
AnnotatedCarriesCharacters ==
    \A n \in 1..LineCount(input) :
       LET es == ParsedEntries(NthLine(textOutput, n), TRUE)
           line == NthLine(input, n)
       IN /\ Len(es) = CharCount(line)
          /\ \A k \in DOMAIN es :
                /\ Len(es[k].code) = 4
                /\ es[k].char = NthChar(line, k)
                /\ es[k].code = codeLines[n][k].code

\* a toggle of the annotate flag keeps the lines, the entries and the codes
ToggleKeepsCodes ==
    (pc = "mounted" /\ showAnnotation' # showAnnotation) =>
        /\ codeLines' = codeLines
        /\ LineCount(textOutput') = LineCount(textOutput)
        /\ \A n \in 1..LineCount(textOutput) :
              ParsedCodes(textOutput', showAnnotation', n)
                 = ParsedCodes(textOutput, showAnnotation, n)

\* C5: with annotation every entry reads CODE(character) with the source
\* character of the entry, and toggling the flag changes no line count, no
\* entry count and no CODE.
C5_AnnotationKeepsCodes ==
    /\ [](pc = "mounted" /\ showAnnotation /\ input # <<>> => AnnotatedCarriesCharacters)
    /\ [][ToggleKeepsCodes]_vars

\* C5 witness: annotation on, an entry of a supplementary-plane
\* character and an entry "????".
C5_AnnotatedEntries ==
    /\ pc = "mounted"
    /\ showAnnotation
    /\ \E n \in DOMAIN codeLines : \E k \in DOMAIN codeLines[n] :
          Len(codeLines[n][k].char) = 2
    /\ \E n \in DOMAIN codeLines : \E k \in DOMAIN codeLines[n] :
          codeLines[n][k].code = PLACEHOLDER

\* a step that leaves the input text and the annotate flag alone leaves the
\* memos alone, and no step of the mounted application ends in an error
OutputFrame ==
    pc = "mounted" =>
        /\ pc' = "mounted"
        /\ MAPPING' = MAPPING
        /\ (input' = input /\ showAnnotation' = showAnnotation) =>
              (codeLines' = codeLines /\ textOutput' = textOutput)

\* C8: the output is always a string, the one the input text, the annotate
\* flag and the ForwardMap determine, and only a change of those changes it.
C8_PureAndTotal ==
    /\ [](pc = "mounted" =>
            /\ textOutput \in Seq(0..65535)
            /\ textOutput =
                  join([n \in 1..(IF input = <<>> THEN 0 ELSE LineCount(input)) |->
                          join([k \in 1..CharCount(NthLine(input, n)) |->
                                  LET ch == NthChar(NthLine(input, n), k)
                                      code == IF MapHas(MAPPING, ch)
                                              THEN MapGet(MAPPING, ch) ELSE PLACEHOLDER
                                  IN IF showAnnotation
                                     THEN code \o <<40>> \o ch \o <<41>> ELSE code],
                               <<STAR>>)],
                       <<NL>>))
    /\ [][OutputFrame]_vars

\* C8 witness: an input holding an unpaired surrogate, after block mode was
\* switched on, the output copied and a reverse-lookup cell filled.
C8_AfterOtherOperations ==
    /\ pc = "mounted"
    /\ HasUnpairedSurrogate(input)
    /\ blockMode
    /\ copied
    /\ showAnnotation
    /\ cells[1] # <<>>

-----------------------------------------------------------------------------
(* Reading the text output back by splitting, checked under Spec.          *)

\* the pieces of one output line split on the star; an empty line holds none
Pieces(l) == IF l = <<>> THEN <<>> ELSE split(l, STAR)

\* the entry of a character: CODE, or CODE(character) with annotation
EntryOf(ch, annotate) ==
    LET code == IF MapHas(MAPPING, ch) THEN MapGet(MAPPING, ch) ELSE PLACEHOLDER
    IN IF annotate THEN code \o <<40>> \o ch \o <<41>> ELSE code

\* every output line splits on the star into one piece per character of its
\* input line, piece k being the entry of character k, and no entry holds
\* the star
SplitsIntoEntries ==
    /\ LineCount(textOutput) = LineCount(input)
    /\ \A n \in 1..LineCount(input) :
          LET pieces == Pieces(NthLine(textOutput, n))
              line == NthLine(input, n)
          IN /\ Len(pieces) = CharCount(line)
             /\ \A k \in 1..CharCount(line) :
                   /\ k \in DOMAIN pieces
                   /\ pieces[k] = EntryOf(NthChar(line, k), showAnnotation)
                   /\ \A p \in DOMAIN pieces[k] : pieces[k][p] # STAR
                   /\ \A p \in DOMAIN EntryOf(NthChar(line, k), showAnnotation) :
                         EntryOf(NthChar(line, k), showAnnotation)[p] # STAR

\* the input holds the star character
InputHoldsStar == \E p \in DOMAIN input : input[p] = STAR

\* C12, as stated: for every input and either annotate flag, splitting each
\* output line on the star yields exactly one piece per input character of
\* the line, each piece that character's entry, and no entry holds the star.
C12_SplitOnStar ==
    (pc = "mounted" /\ input # <<>>) => SplitsIntoEntries

\* what the code does keep of C12: the split reads the entries back whenever
\* annotation is off or the input holds no star, and fails whenever annotation
\* is on and the input holds one.
C12_SplitOnStarUnlessAnnotatedStar ==
    (pc = "mounted" /\ input # <<>>) =>
        (SplitsIntoEntries <=> ~(showAnnotation /\ InputHoldsStar))

-----------------------------------------------------------------------------
(* The maps after construction, checked under Spec.                        *)

\* the ForwardMap buildMapping returns for a binary string and a record
\* count, all records being in the Unicode range
RECURSIVE BuiltForward(_, _)
BuiltForward(r, n) ==
    IF n = 0 THEN <<>> ELSE BuildSet(BuiltForward(r, n - 1), r, (n - 1) * 5)

\* the ReverseMap the for-of loop leaves after the first n entries of m
RECURSIVE BuiltReverse(_, _)
BuiltReverse(m, n) ==
    IF n = 0 THEN <<>> ELSE ReverseSet(BuiltReverse(m, n - 1), m[n])

\* once mounted, both maps are the ones construction made of the asset
MapsAsBuilt ==
    pc = "mounted" =>
        /\ MAPPING = BuiltForward(atob(BIG5_DATA), BIG5_COUNT)
        /\ REVERSE_MAPPING = BuiltReverse(MAPPING, Len(MAPPING))

\* no step changes the asset; the ForwardMap is assigned once, by the return
\* of buildMapping, and no step changes it afterwards; the ReverseMap is
\* filled by the one pass that follows, and no step of the mounted application
\* changes it; construction never starts again
MapsFrame ==
    /\ BIG5_DATA' = BIG5_DATA /\ BIG5_COUNT' = BIG5_COUNT
    /\ pc \in {"reverse", "mounted"} => (MAPPING' = MAPPING /\ map' = map /\ raw' = raw)
    /\ pc \in {"atob", "build"} => (MAPPING' = MAPPING \/ pc' = "reverse")
    /\ pc = "reverse" => pc' \in {"reverse", "mounted"}
    /\ pc = "mounted" => (pc' = "mounted" /\ REVERSE_MAPPING' = REVERSE_MAPPING /\ j' = j)
    /\ pc = "fatal" => pc' = "fatal"

\* C11: after construction no operation of the application changes the
\* ForwardMap or the ReverseMap: both stay exactly as built from the asset,
\* and they are built once only.
C11_MapsReadOnly == [][MapsFrame]_vars /\ []MapsAsBuilt

\* C11 witness: the mounted application after an input edit whose lookup
\* missed, a toggle of annotation and of block mode, a copy, and four cell
\* edits whose reverse lookup hit.
C11_AfterEveryOperation ==
    /\ pc = "mounted"
    /\ MAPPING # <<>>
    /\ REVERSE_MAPPING # <<>>
    /\ \E n \in DOMAIN codeLines : \E k \in DOMAIN codeLines[n] :
          codeLines[n][k].code = PLACEHOLDER
    /\ showAnnotation
    /\ blockMode
    /\ copied
    /\ resultView(REVERSE_MAPPING, cells)[1] = "found"

-----------------------------------------------------------------------------
(* Properties of the reverse resolver, checked under SpecLookup.           *)

\* the upper-case form of a cell
UpperCell(c) == [p \in DOMAIN c |-> IF c[p] >= 97 /\ c[p] <= 102 THEN c[p] - 32 ELSE c[p]]

\* every cell holds one hexadecimal digit, in either case
FourHexDigits == \A k \in 1..4 : Len(cells[k]) = 1 /\ IsHexChar(cells[k][1])

\* the four digits in upper case
UpperCode == <<UpperCell(cells[1])[1], UpperCell(cells[2])[1],
               UpperCell(cells[3])[1], UpperCell(cells[4])[1]>>

\* C6: the resolver shows "incomplete" unless the cells hold four hex digits
\* (so whenever a cell is empty), the character when the upper-cased code is a
\* key of the ReverseMap, "not found" otherwise; and the same as for the cells
\* in upper case.
C6_ThreeOutcomes ==
    pc = "mounted" =>
        LET view == resultView(REVERSE_MAPPING, cells)
        IN /\ ~FourHexDigits => view = <<"incomplete">>
           /\ (\E k \in 1..4 : cells[k] = <<>>) => view = <<"incomplete">>
           /\ (FourHexDigits /\ UpperCode \in MapKeys(REVERSE_MAPPING))
                 => view = <<"found", MapGet(REVERSE_MAPPING, UpperCode)>>
           /\ (FourHexDigits /\ UpperCode \notin MapKeys(REVERSE_MAPPING))
                 => view = <<"not found">>
           /\ view = resultView(REVERSE_MAPPING, [k \in 1..4 |-> UpperCell(cells[k])])

\* C6 witness: a code with a lower-case digit that resolves to a character.
C6_LowerCaseFound ==
    /\ pc = "mounted"
    /\ \E k \in 1..4 : cells[k] = <<97>>
    /\ resultView(REVERSE_MAPPING, cells)[1] = "found"

-----------------------------------------------------------------------------
(* Properties of the reverse-lookup cells, checked under SpecCells.        *)

\* a cell is empty or holds one upper-case hexadecimal digit
IsCell(c) == c = <<>> \/ (Len(c) = 1 /\ IsUpperHexChar(c[1]))

\* four cells, each empty or one upper-case hexadecimal digit
CellsShape == DOMAIN cells = 1..4 /\ \A k \in 1..4 : IsCell(cells[k])

\* the positions of the hexadecimal digits, of either case, of a raw text
HexPositions(rawText) == {p \in DOMAIN rawText : IsHexChar(rawText[p])}

\* the upper-case form of the last hexadecimal digit of a raw text holding one
LastDigitUpper(rawText) ==
    LET p == CHOOSE q \in HexPositions(rawText) : \A r \in HexPositions(rawText) : r <= q
        c == rawText[p]
    IN IF c >= 97 THEN c - 32 ELSE c

\* every cell but the one of index idx is left alone
OthersKept(idx) == \A l \in 1..4 : l # idx + 1 => cells'[l] = cells[l]

\* a handleChange step sets the addressed cell to the last hexadecimal digit
\* of the raw text, in upper case, or empties it when the text holds none,
\* and keeps the other cells; a Backspace step empties the addressed cell and
\* keeps the others; any other key keeps every cell
CellsFrame ==
    /\ \A idx \in 0..3 : \A rawText \in RawTextsCells :
          handleChange(idx, rawText) =>
             /\ OthersKept(idx)
             /\ cells'[idx + 1] = IF HexPositions(rawText) = {} THEN <<>>
                                  ELSE <<LastDigitUpper(rawText)>>
    /\ \A idx \in 0..3 :
          handleKeyDown(idx, "Backspace") => (OthersKept(idx) /\ cells'[idx + 1] = <<>>)
    /\ \A idx \in 0..3 : \A key \in Keys \ {"Backspace"} :
          handleKeyDown(idx, key) => cells' = cells
    /\ handleClearCells => \A k \in 1..4 : cells'[k] = <<>>

\* C13: after any sequence of handleChange, handleKeyDown and handleClear the
\* cell array has exactly 4 cells, each empty or a single upper-case hex
\* digit; handleChange and Backspace change at most the addressed cell; and
\* the resolver shows "incomplete" exactly when at least one cell is empty.
C13_CellsInvariant ==
    /\ [](CellsShape
           /\ (pc = "mounted" =>
                 ((resultView(REVERSE_MAPPING, cells) = <<"incomplete">>)
                     <=> (\E k \in 1..4 : cells[k] = <<>>))))
    /\ [][CellsFrame]_vars

\* C13 witness: three cells filled, one of them with the letter F and one
\* with the digit 0, the last cell empty, and the resolver incomplete.
C13_ThreeOfFourFilled ==
    /\ pc = "mounted"
    /\ cells[1] = <<70>>
    /\ cells[2] = <<48>>
    /\ cells[3] # <<>>
    /\ cells[4] = <<>>
    /\ resultView(REVERSE_MAPPING, cells) = <<"incomplete">>

====
